---- MODULE Spec2Model ----
(***************************************************************************)
(* RepoSpark: the repository-creation workflow (RepositoryWorker.run), the *)
(* adapters it drives (GitHubAPI, GitOperations, ScaffoldGenerator), the   *)
(* template-list cache and the main window that starts and cancels a run.  *)
(***************************************************************************)
EXTENDS Integers, Sequences, FiniteSets, TLC

VARIABLES
    config,        \* RepositoryWorker.config
    should_stop,   \* RepositoryWorker._should_stop
    pc,            \* position of the worker thread inside run()
    step,          \* pipeline step the worker is at
    exc,           \* exception in flight through the finally block
    propagated,    \* an exception left run()
    finished,      \* emissions of the finished(bool, str) signal, in order
    progress,      \* emissions of the progress(str) signal, in order
    steps,         \* pipeline steps whose adapter/helper was invoked, in order
    cmds,          \* external commands (gh / git) invoked, in order
    rets,          \* what the adapter of each step handed back to run()
    raised,        \* exceptions raised inside run(), in order
    tokenAtCheck,  \* value of _should_stop read by each boundary check
    cwd,           \* process working directory
    fs,            \* files of the target directory
    fs0,           \* files of the target directory when the run was set up
    remote,        \* URL of the remote "origin" of the local repository
    hosted,        \* the hosted repository exists
    gui,           \* position of the GUI thread: idle, in a wait, closed
    cache,         \* GitHubAPI._gitignore_templates_cache
    returned,      \* values returned by get_gitignore_templates, in order
    fetched,       \* list stored by the first successful fetch
    runs,          \* results of the create_scaffold calls made on fs
    log,           \* progress emissions and step calls of run(), in order
    branch,        \* current branch of the local repository
    pushed,        \* branch named by the git push the run made
    win,           \* RepoSparkGUI: buttons, worker, queued events
    ui,            \* RepoSparkGUI: values of the input widgets
    calls          \* calls of get_user_info and set_topics with what they gave

vars == <<config, should_stop, pc, step, exc, propagated, finished, progress,
          steps, cmds, rets, raised, tokenAtCheck, cwd, fs, fs0, remote,
          hosted, gui, cache, returned, fetched, runs, log, branch, pushed,
          win, ui, calls>>

workerVars == <<config, should_stop, pc, step, exc, propagated, finished,
                progress, steps, cmds, rets, raised, tokenAtCheck, cwd, fs0,
                remote, hosted, log, branch, pushed>>
guiVars == <<win, ui>>
cacheVars == <<cache, returned, fetched, calls>>

(***************************************************************************)
(* Bounds                                                                  *)
(***************************************************************************)
MaxCalls == 3      \* calls of get_gitignore_templates in one process
MaxScaffoldRuns == 2   \* calls of create_scaffold on one directory
MaxApiCalls == 2   \* calls of get_user_info and set_topics in one process

(***************************************************************************)
(* Files                                                                   *)
(***************************************************************************)
Absent == "<absent>"
Dir == "<dir>"

Paths == {"src", "tests", "docs", ".github", "README.md", "docs/index.md",
          "tests/test_placeholder.txt", "CHANGELOG.md", "CONTRIBUTING.md",
          "CODE_OF_CONDUCT.md", "SECURITY.md", ".github/ISSUE_TEMPLATE.md",
          ".github/PULL_REQUEST_TEMPLATE.md", ".editorconfig",
          ".gitattributes", ".gitignore", ".git"}

Parent(p) ==
    CASE p = "docs/index.md" -> "docs"
      [] p = "tests/test_placeholder.txt" -> "tests"
      [] p \in {".github/ISSUE_TEMPLATE.md", ".github/PULL_REQUEST_TEMPLATE.md"} -> ".github"
      [] OTHER -> "."

EmptyDir == [p \in Paths |-> Absent]

\* os.path.exists(p)
Exists(f, p) == f[p] # Absent

\* os.makedirs(p) without exist_ok: raises when p is there already
MakeDirsNoExistOk(st, p) ==
    IF st.raised THEN st
    ELSE IF st.fs[p] = Absent THEN [st EXCEPT !.fs[p] = Dir]
    ELSE [st EXCEPT !.raised = TRUE]

\* os.makedirs(p, exist_ok=True): a state of the files and whether it raised
MakeDirs(st, p) ==
    IF st.raised THEN st
    ELSE IF st.fs[p] = Absent THEN [st EXCEPT !.fs[p] = Dir]
    ELSE IF st.fs[p] = Dir THEN st
    ELSE [st EXCEPT !.raised = TRUE]

\* with open(p, 'w') as f: f.write(text)
WriteFile(st, p, text) ==
    IF st.raised THEN st
    ELSE IF st.fs[p] = Dir THEN [st EXCEPT !.raised = TRUE]
    ELSE IF Parent(p) # "." /\ st.fs[Parent(p)] # Dir THEN [st EXCEPT !.raised = TRUE]
    ELSE [st EXCEPT !.fs[p] = text]

DefaultReadme(repo_name) ==
    "# " \o repo_name \o "\n\nProject initialized using RepoSpark.\n"

\* a create_scaffold that ignores readme_content
CreateScaffoldDefaultReadme(f, repo_name, create_editorconfig, readme_content) ==
    LET s0 == [fs |-> f, raised |-> FALSE]
        s1 == MakeDirs(s0, "src")
        s2 == MakeDirs(s1, "tests")
        s3 == MakeDirs(s2, "docs")
        s4 == MakeDirs(s3, ".github")
        s5 == WriteFile(s4, "README.md", DefaultReadme(repo_name))
        s6 == WriteFile(s5, "docs/index.md", "# Documentation\n\nProject documentation goes here.\n")
        s7 == WriteFile(s6, "tests/test_placeholder.txt", "# Placeholder for tests\n")
        s8 == WriteFile(s7, "CHANGELOG.md", "changelog_content")
        s9 == WriteFile(s8, "CONTRIBUTING.md", "contributing_content")
        s10 == WriteFile(s9, "CODE_OF_CONDUCT.md", "coc_content")
        s11 == WriteFile(s10, "SECURITY.md", "security_content")
        s12 == WriteFile(s11, ".github/ISSUE_TEMPLATE.md", "issue_template")
        s13 == WriteFile(s12, ".github/PULL_REQUEST_TEMPLATE.md", "pr_template")
        s14 == IF create_editorconfig
               THEN WriteFile(s13, ".editorconfig", "editorconfig_content")
               ELSE s13
    IN  WriteFile(s14, ".gitattributes", "gitattributes_content")

\* ScaffoldGenerator.create_scaffold, statement by statement
CreateScaffold(f, repo_name, create_editorconfig, readme_content) ==
    LET s0 == [fs |-> f, raised |-> FALSE]
        s1 == MakeDirs(s0, "src")
        s2 == MakeDirs(s1, "tests")
        s3 == MakeDirs(s2, "docs")
        s4 == MakeDirs(s3, ".github")
        s5 == IF readme_content # ""
              THEN WriteFile(s4, "README.md", readme_content)
              ELSE WriteFile(s4, "README.md", DefaultReadme(repo_name))
        s6 == WriteFile(s5, "docs/index.md", "# Documentation\n\nProject documentation goes here.\n")
        s7 == WriteFile(s6, "tests/test_placeholder.txt", "# Placeholder for tests\n")
        s8 == WriteFile(s7, "CHANGELOG.md", "changelog_content")
        s9 == WriteFile(s8, "CONTRIBUTING.md", "contributing_content")
        s10 == WriteFile(s9, "CODE_OF_CONDUCT.md", "coc_content")
        s11 == WriteFile(s10, "SECURITY.md", "security_content")
        s12 == WriteFile(s11, ".github/ISSUE_TEMPLATE.md", "issue_template")
        s13 == WriteFile(s12, ".github/PULL_REQUEST_TEMPLATE.md", "pr_template")
        s14 == IF create_editorconfig
               THEN WriteFile(s13, ".editorconfig", "editorconfig_content")
               ELSE s13
    IN  WriteFile(s14, ".gitattributes", "gitattributes_content")

(***************************************************************************)
(* External processes: subprocess.run(..., check=True) either returns or   *)
(* raises.  CalledProcessError: the command exited non-zero;               *)
(* FileNotFoundError: the executable is not on PATH; OtherError: any other *)
(* exception of the call (PermissionError of the launch,                   *)
(* UnicodeDecodeError of the text=True decoding of the output).            *)
(***************************************************************************)
ProcOutcomes == {"ok", "CalledProcessError", "FileNotFoundError", "OtherError"}

\* an external command that was run, and how it ended
Cmd(c, o) == [cmd |-> c, out |-> o]

\* Values a bool-returning adapter hands to its caller: "True", "False", or
\* the kind of the exception it lets through.
IsRaise(r) == r \notin {"True", "False"}

\* GitHubAPI.create_repository
CreateRepository(o) ==
    CASE o = "ok" -> "True"
      [] o = "CalledProcessError" -> "False"
      [] o = "FileNotFoundError" -> "False"
      [] OTHER -> o

\* GitHubAPI.set_topics
SetTopics(topics, o) ==
    IF topics = <<>> THEN "True"
    ELSE CASE o = "ok" -> "True"
           [] o = "CalledProcessError" -> "False"
           [] o = "FileNotFoundError" -> "False"
           [] OTHER -> o

\* GitOperations.init_repository
InitRepository(o) ==
    CASE o = "ok" -> "True"
      [] o = "CalledProcessError" -> "False"
      [] o = "FileNotFoundError" -> "False"
      [] OTHER -> o

\* GitOperations.add_and_commit: 'git add .' then 'git commit'
AddAndCommit(oAdd, oCommit) ==
    LET o == IF oAdd = "ok" THEN oCommit ELSE oAdd
    IN  [ret |-> CASE o = "ok" -> "True"
                   [] o = "CalledProcessError" -> "False"
                   [] o = "FileNotFoundError" -> "False"
                   [] OTHER -> o,
         cmds |-> IF oAdd = "ok"
                  THEN <<Cmd("git add", oAdd), Cmd("git commit", oCommit)>>
                  ELSE <<Cmd("git add", oAdd)>>]

\* GitOperations.push_to_remote
PushToRemote(o) ==
    CASE o = "ok" -> "True"
      [] o = "CalledProcessError" -> "False"
      [] o = "FileNotFoundError" -> "False"
      [] OTHER -> o

\* the branch HEAD names: none without a repository, detached when HEAD is
\* not on a branch
NoBranch == "<no repository>"
Detached == "<detached>"

\* plain 'git init': the first branch is named by init.defaultBranch
InitBranches == {"main", "master"}

\* GitOperations.get_current_branch: the output of git symbolic-ref, 'main'
\* when the command fails
GetCurrentBranch(b) == IF b \in {NoBranch, Detached} THEN "main" ELSE b

\* run(), line 207 with push_to_remote's signature: the call names no
\* branch, so git push gets the default of the parameter
NotPushed == "<not pushed>"
PushBranch(current) == "main"

\* GitHubAPI.create_repository, lines 113-120: the command line built
CreateRepositoryCmd(gitignore_template) ==
    IF gitignore_template # ""
    THEN "gh repo create --gitignore " \o gitignore_template
    ELSE "gh repo create"

NoRemote == "<none>"

\* remote_url of GitOperations.add_remote
RemoteUrl(username, repo_name, remote_type) ==
    IF remote_type = "ssh"
    THEN "git@github.com:" \o username \o "/" \o repo_name \o ".git"
    ELSE "https://github.com/" \o username \o "/" \o repo_name \o ".git"

\* What 'git remote add origin <url>' does in a repository whose origin is
\* cur: it exits non-zero with "remote origin already exists" when there is
\* one.  "exists" stands for a CalledProcessError with that stderr.
GitRemoteAdd(cur, o) ==
    IF o \in {"FileNotFoundError", "OtherError"} THEN o
    ELSE IF cur # NoRemote THEN "exists"
    ELSE o

\* an add_remote that never recognises the "already exists" failure
StderrNeverSaysExists(addResult) == FALSE

\* 'already exists' in (e.stderr or '').lower()
StderrSaysExists(addResult) == addResult = "exists"

\* an add_remote that tries set-url after any failed add
AddRemoteAlwaysSetsUrl(username, repo_name, remote_type, cur, oAdd, oSet) ==
    LET url == RemoteUrl(username, repo_name, remote_type)
        add == GitRemoteAdd(cur, oAdd)
    IN  IF add = "ok"
        THEN [ret |-> "True", remote |-> url, cmds |-> <<Cmd("git remote add", add)>>]
        ELSE IF add \in {"exists", "CalledProcessError"}
        THEN IF TRUE
             THEN CASE oSet = "ok" ->
                         [ret |-> "True", remote |-> url,
                          cmds |-> <<Cmd("git remote add", add), Cmd("git remote set-url", oSet)>>]
                    [] oSet = "CalledProcessError" ->
                         [ret |-> "False", remote |-> cur,
                          cmds |-> <<Cmd("git remote add", add), Cmd("git remote set-url", oSet)>>]
                    [] OTHER ->
                         [ret |-> oSet, remote |-> cur,
                          cmds |-> <<Cmd("git remote add", add), Cmd("git remote set-url", oSet)>>]
             ELSE [ret |-> "False", remote |-> cur, cmds |-> <<Cmd("git remote add", add)>>]
        ELSE IF add = "FileNotFoundError"
        THEN [ret |-> "False", remote |-> cur, cmds |-> <<Cmd("git remote add", add)>>]
        ELSE [ret |-> add, remote |-> cur, cmds |-> <<Cmd("git remote add", add)>>]

\* GitOperations.add_remote
AddRemote(username, repo_name, remote_type, cur, oAdd, oSet) ==
    LET url == RemoteUrl(username, repo_name, remote_type)
        add == GitRemoteAdd(cur, oAdd)
    IN  IF add = "ok"
        THEN [ret |-> "True", remote |-> url, cmds |-> <<Cmd("git remote add", add)>>]
        ELSE IF add \in {"exists", "CalledProcessError"}
        THEN IF StderrSaysExists(add)
             THEN CASE oSet = "ok" ->
                         [ret |-> "True", remote |-> url,
                          cmds |-> <<Cmd("git remote add", add), Cmd("git remote set-url", oSet)>>]
                    [] oSet = "CalledProcessError" ->
                         [ret |-> "False", remote |-> cur,
                          cmds |-> <<Cmd("git remote add", add), Cmd("git remote set-url", oSet)>>]
                    [] OTHER ->
                         [ret |-> oSet, remote |-> cur,
                          cmds |-> <<Cmd("git remote add", add), Cmd("git remote set-url", oSet)>>]
             ELSE [ret |-> "False", remote |-> cur, cmds |-> <<Cmd("git remote add", add)>>]
        ELSE IF add = "FileNotFoundError"
        THEN [ret |-> "False", remote |-> cur, cmds |-> <<Cmd("git remote add", add)>>]
        ELSE [ret |-> add, remote |-> cur, cmds |-> <<Cmd("git remote add", add)>>]

\* custom_gitignore_templates of RepositoryWorker.run
CustomGitignoreTemplates ==
    {"C++", "C#", "Dart", "Go", "Java", "JavaScript", "Kotlin", "PHP", "R",
     "Ruby", "Rust", "Scala", "Swift", "TypeScript"}

\* RepositoryWorker._create_custom_gitignore
CreateCustomGitignore(f, template_name) ==
    WriteFile([fs |-> f, raised |-> FALSE], ".gitignore",
              "# .gitignore for " \o template_name \o " projects\n")

FetchOutcomes == {"ok", "ok_empty", "CalledProcessError", "JSONDecodeError",
                  "FileNotFoundError", "AttributeError"}

\* a _fetch_gitignore_template that writes the source over an existing file
FetchGitignoreTemplateOverwrites(f, template_name, o) ==
    IF o = "ok"
    THEN [fs |-> [f EXCEPT ![".gitignore"] = "source of " \o template_name],
          exc |-> "none"]
    ELSE [fs |-> f,
          exc |-> IF o \in {"FileNotFoundError", "AttributeError"} THEN o
                  ELSE "none"]

\* RepositoryWorker._fetch_gitignore_template: the files afterwards and the
\* exception it lets through ("none" when it returns)
FetchGitignoreTemplate(f, template_name, o) ==
    LET content == IF o = "ok" THEN "source of " \o template_name ELSE ""
    IN  CASE o \in {"ok", "ok_empty"} ->
               IF content # "" /\ ~Exists(f, ".gitignore")
               THEN [fs |-> [f EXCEPT ![".gitignore"] = content], exc |-> "none"]
               ELSE [fs |-> f, exc |-> "none"]
          [] o \in {"CalledProcessError", "JSONDecodeError", "KeyError"} ->
               [fs |-> f, exc |-> "none"]
          [] OTHER -> [fs |-> f, exc |-> o]

(***************************************************************************)
(* RepositoryWorker                                                        *)
(***************************************************************************)
Pipeline == <<"scaffold", "hosted-create", "gitignore", "local-init",
              "commit", "remote-wire", "push", "topics">>

StepNames == {Pipeline[i] : i \in 1..Len(Pipeline)}

Rank(k) == CHOOSE i \in 1..Len(Pipeline) : Pipeline[i] = k

RepoName == "test-repo"
UserName == "octocat"

\* A config the worker can be constructed with.  missing names a key the
\* dictionary does not hold ("none": all keys present).
Configs ==
    [repo_name : {RepoName}, username : {UserName}, visibility : {"public"},
     gitignore_template : {"", "Go", "Python"},
     topics : {<<>>, <<"a", "b">>},
     remote_type : {"https", "ssh"},
     create_scaffold : BOOLEAN,
     create_editorconfig : {TRUE},
     readme_content : {""},
     missing : {"none", "repo_name", "visibility", "username"}]

HasKey(c, k) == c.missing # k

OtherUrl == "https://example.org/other.git"

\* Target directories a run can start in: empty; an existing repository the
\* user keeps; a .gitignore and README of the user; a file named src.
StartDirs ==
    {EmptyDir,
     [EmptyDir EXCEPT ![".git"] = Dir, ![".gitignore"] = "user ignore",
                      !["README.md"] = "user readme"],
     [EmptyDir EXCEPT ![".git"] = Dir],
     [EmptyDir EXCEPT ![".gitignore"] = "user ignore"],
     [EmptyDir EXCEPT !["src"] = "user file"]}

StartRemotes(f) ==
    IF f[".git"] = Dir
    THEN {NoRemote, OtherUrl}
    ELSE {NoRemote}

CancelledMsg == "Operation cancelled"
SuccessMsg(repo_name) == "Repository '" \o repo_name \o "' created successfully!"
ErrorMsg(e) == "Error: " \o e

\* message of the finished(False, ...) emitted when a required step returns False
FailMsg(k) ==
    CASE k = "hosted-create" -> "Failed to create GitHub repository"
      [] k = "local-init" -> "Failed to initialize git repository"
      [] k = "commit" -> "Failed to add and commit files"
      [] k = "remote-wire" -> "Failed to add remote origin"
      [] k = "push" -> "Failed to push to GitHub"

Result(s, m) == [success |-> s, message |-> m]

\* a create_repository call that always passes the chosen template
HostedGitignoreArgAlways(t) == t

\* run(), lines 147-148: the gitignore_template argument of
\* create_repository
HostedGitignoreArg(t) == IF t \notin CustomGitignoreTemplates THEN t ELSE ""

\* entries of log: the progress signal emitted for step k, the call of the
\* adapter or helper of step k
Announce(k) == [kind |-> "progress", what |-> k]
Call(k) == [kind |-> "call", what |-> k]

\* a step that emits its progress message after the call
StepLogCallFirst(k) == <<Call(k), Announce(k)>>

\* 'self.progress.emit(...)' followed by the call of the step
StepLog(k) == <<Announce(k), Call(k)>>

\* a run() that calls git init whatever the directory holds
NeedsInitAlways(f) == TRUE

\* run(), line 174: 'if not os.path.exists(".git")'
NeedsInit(f) == ~Exists(f, ".git")

\* a run() that lacks the check in front of the hosted-repository creation
BoundaryCheckSkipsHosted(k, stop) == stop /\ k # "hosted-create"

\* 'if self._should_stop:' in front of step k ("entry": the first statement)
BoundaryCheck(k, stop) == stop

\* 'except Exception as e' around the steps (inner try)
InnerExcept(e) == TRUE

\* an outer handler that catches the subprocess error only
OuterExceptProcessOnly(e) == e = "CalledProcessError"

\* 'except Exception as e' around the whole of run (outer try)
OuterExcept(e) == TRUE

\* a run() that wires the remote before it commits
NextStepSwapped(k) ==
    CASE k = "scaffold" -> "hosted-create"
      [] k = "hosted-create" -> "gitignore"
      [] k = "gitignore" -> "local-init"
      [] k = "local-init" -> "remote-wire"
      [] k = "remote-wire" -> "commit"
      [] k = "commit" -> "push"
      [] k = "push" -> "topics"

\* the step whose check follows step k in the text of run()
NextStep(k) ==
    CASE k = "scaffold" -> "hosted-create"
      [] k = "hosted-create" -> "gitignore"
      [] k = "gitignore" -> "local-init"
      [] k = "local-init" -> "commit"
      [] k = "commit" -> "remote-wire"
      [] k = "remote-wire" -> "push"
      [] k = "push" -> "topics"

InitIdleWorker ==
    /\ should_stop = FALSE
    /\ pc = "idle"
    /\ step = "entry"
    /\ exc = "none"
    /\ propagated = FALSE
    /\ finished = <<>>
    /\ progress = <<>>
    /\ steps = <<>>
    /\ cmds = <<>>
    /\ rets = [k \in StepNames |-> "none"]
    /\ raised = <<>>
    /\ tokenAtCheck = [k \in StepNames \cup {"entry"} |-> "unchecked"]
    /\ cwd = "original"
    /\ hosted = FALSE
    /\ gui = "idle"
    /\ log = <<>>
    /\ pushed = NotPushed

\* the config of the runs that do not depend on it
FixedConfig ==
    [repo_name |-> RepoName, username |-> UserName, visibility |-> "public",
     gitignore_template |-> "", topics |-> <<>>, remote_type |-> "https",
     create_scaffold |-> TRUE, create_editorconfig |-> TRUE,
     readme_content |-> "", missing |-> "none"]

\* values of the input widgets (text fields stripped, topics split)
UiValid ==
    [repo_location |-> "/home/user/projects", folder_name |-> RepoName,
     repo_name |-> RepoName, visibility |-> "public",
     gitignore_template |-> "", topics |-> <<>>, remote_type |-> "https",
     create_scaffold |-> TRUE, create_editorconfig |-> TRUE,
     readme_content |-> ""]

\* RepoSparkGUI.__init__ and the .ui file: no worker, Create enabled, Cancel
\* disabled
IdleWindow ==
    [create_button |-> TRUE, cancel_button |-> FALSE, worker |-> FALSE,
     delivered |-> 0, queued |-> 0, captured |-> FixedConfig,
     timed_out |-> FALSE, cancel_returned |-> FALSE,
     last |-> [called |-> FALSE, valid |-> FALSE, confirmed |-> FALSE,
               started |-> FALSE, kept |-> TRUE]]

InitWindow ==
    /\ win = IdleWindow
    /\ ui = UiValid

\* branches an existing repository may be on
StartBranches(f) ==
    IF Exists(f, ".git") THEN {"main", "develop", Detached} ELSE {NoBranch}

InitRest ==
    /\ cache = [some |-> FALSE, list |-> <<>>]
    /\ returned = <<>>
    /\ fetched = [some |-> FALSE, list |-> <<>>]
    /\ runs = <<>>
    /\ calls = <<>>

\* a worker constructed with a config, its target directory as it is on disk
Init ==
    /\ config \in Configs
    /\ InitIdleWorker
    /\ fs \in StartDirs
    /\ fs0 = fs
    /\ remote \in StartRemotes(fs)
    /\ branch \in StartBranches(fs)
    /\ InitRest
    /\ InitWindow

\* QThread.start(): the worker thread enters run()
Start ==
    /\ pc = "idle"
    /\ pc' = "entry"
    /\ UNCHANGED <<config, should_stop, step, exc, propagated, finished,
                   progress, steps, cmds, rets, raised, tokenAtCheck, cwd, fs,
                   fs0, remote, hosted, gui, cacheVars, runs, guiVars,
                   log, branch, pushed>>

\* a cancel that flips the flag: a second request clears it again
cancelToggles ==
    /\ should_stop' = ~should_stop
    /\ UNCHANGED <<config, pc, step, exc, propagated, finished, progress,
                   steps, cmds, rets, raised, tokenAtCheck, cwd, fs, fs0,
                   remote, hosted, gui, cacheVars, runs, guiVars,
                   log, branch, pushed>>

\* RepositoryWorker.cancel
cancel ==
    /\ ~should_stop
    /\ should_stop' = TRUE
    /\ UNCHANGED <<config, pc, step, exc, propagated, finished, progress,
                   steps, cmds, rets, raised, tokenAtCheck, cwd, fs, fs0,
                   remote, hosted, gui, cacheVars, runs, guiVars,
                   log, branch, pushed>>

\* the handler of the outer try for an exception e that reaches it
OuterHandle(e) ==
    /\ pc' = "done"
    /\ exc' = "none"
    /\ IF OuterExcept(e)
       THEN /\ finished' = Append(finished, Result(FALSE, ErrorMsg(e)))
            /\ propagated' = propagated
       ELSE /\ finished' = finished
            /\ propagated' = TRUE

\* run(), lines 94-97: the check at entry; its return is outside the inner try
EntryCheck ==
    /\ pc = "entry"
    /\ tokenAtCheck' = [tokenAtCheck EXCEPT !["entry"] = IF should_stop THEN "set" ELSE "clear"]
    /\ IF BoundaryCheck("entry", should_stop)
       THEN /\ finished' = Append(finished, Result(FALSE, CancelledMsg))
            /\ pc' = "done"
       ELSE /\ finished' = finished
            /\ pc' = "setup"
    /\ UNCHANGED <<config, should_stop, step, exc, propagated, progress,
                   steps, cmds, rets, raised, cwd, fs, fs0, remote, hosted,
                   gui, cacheVars, runs, guiVars,
                   log, branch, pushed>>

\* run(), lines 99-110: makedirs, getcwd, chdir; then the first step
Setup(o) ==
    /\ pc = "setup"
    /\ IF o = "ok"
       THEN /\ cwd' = "repo_location"
            /\ pc' = "check"
            /\ step' = IF config.create_scaffold THEN "scaffold" ELSE "hosted-create"
            /\ UNCHANGED <<exc, finished, propagated, raised>>
       ELSE /\ raised' = Append(raised, o)
            /\ OuterHandle(o)
            /\ UNCHANGED <<cwd, step>>
    /\ UNCHANGED <<config, should_stop, progress, steps, cmds, rets,
                   tokenAtCheck, fs, fs0, remote, hosted, gui, cacheVars, runs, guiVars,
                   log, branch, pushed>>

\* the check of the token in front of the step the worker is at
Check ==
    /\ pc = "check"
    /\ tokenAtCheck' = [tokenAtCheck EXCEPT ![step] = IF should_stop THEN "set" ELSE "clear"]
    /\ IF BoundaryCheck(step, should_stop)
       THEN /\ finished' = Append(finished, Result(FALSE, CancelledMsg))
            /\ pc' = "finally"
       ELSE /\ finished' = finished
            /\ pc' = "do"
    /\ UNCHANGED <<config, should_stop, step, exc, propagated, progress,
                   steps, cmds, rets, raised, cwd, fs, fs0, remote, hosted,
                   gui, cacheVars, runs, guiVars,
                   log, branch, pushed>>

\* ways a step leaves: on to the next check, return after finished(False, msg),
\* an exception, or the finished(True, ...) at the end of the pipeline
GoOn ==
    /\ pc' = "check" /\ step' = NextStep(step)
    /\ UNCHANGED <<exc, finished, raised>>
Fail(msg) ==
    /\ pc' = "finally" /\ step' = step
    /\ finished' = Append(finished, Result(FALSE, msg))
    /\ UNCHANGED <<exc, raised>>
Raise(e) ==
    /\ pc' = "finally" /\ step' = step
    /\ raised' = Append(raised, e)
    /\ IF InnerExcept(e)
       THEN /\ finished' = Append(finished, Result(FALSE, ErrorMsg(e)))
            /\ exc' = "none"
       ELSE /\ finished' = finished
            /\ exc' = e
Succeed ==
    /\ pc' = "finally" /\ step' = step
    /\ finished' = Append(finished, Result(TRUE, SuccessMsg(config.repo_name)))
    /\ UNCHANGED <<exc, raised>>

\* a run() that ignores a False from create_repository
ReturnCreateContinues(r) ==
    /\ rets' = [rets EXCEPT ![step] = r]
    /\ IF r = "True" \/ (r = "False" /\ step = "hosted-create") THEN GoOn
       ELSE IF r = "False" THEN Fail(FailMsg(step))
       ELSE Raise(r)

\* a run() that ignores a False from push_to_remote
ReturnPushContinues(r) ==
    /\ rets' = [rets EXCEPT ![step] = r]
    /\ IF r = "True" \/ (r = "False" /\ step = "push") THEN GoOn
       ELSE IF r = "False" THEN Fail(FailMsg(step))
       ELSE Raise(r)

\* 'if not <adapter>(...): self.finished.emit(False, ...); return' with r
\* what the adapter handed back
Return(r) ==
    /\ rets' = [rets EXCEPT ![step] = r]
    /\ IF r = "True" THEN GoOn
       ELSE IF r = "False" THEN Fail(FailMsg(step))
       ELSE Raise(r)

\* run(), lines 114-119
DoScaffold ==
    /\ pc = "do" /\ step = "scaffold"
    /\ progress' = Append(progress, "Creating project scaffold...")
    /\ IF ~HasKey(config, "repo_name")
       THEN /\ Raise("KeyError")
            /\ log' = Append(log, Announce("scaffold"))
            /\ UNCHANGED <<steps, fs>>
       ELSE LET r == CreateScaffold(fs, config.repo_name,
                                    config.create_editorconfig, config.readme_content)
            IN  /\ steps' = Append(steps, "scaffold")
                /\ log' = log \o StepLog("scaffold")
                /\ fs' = r.fs
                /\ IF r.raised THEN Raise("OSError") ELSE GoOn
    /\ UNCHANGED <<config, should_stop, propagated, cmds, rets, tokenAtCheck,
                   cwd, fs0, remote, hosted, gui, cacheVars, runs, guiVars,
                   branch, pushed>>

\* run(), lines 144-155
DoHostedCreate(o) ==
    /\ pc = "do" /\ step = "hosted-create"
    /\ progress' = Append(progress, "Creating GitHub repository...")
    /\ IF ~HasKey(config, "repo_name") \/ ~HasKey(config, "visibility")
       THEN /\ Raise("KeyError")
            /\ log' = Append(log, Announce("hosted-create"))
            /\ UNCHANGED <<steps, cmds, hosted, rets>>
       ELSE /\ steps' = Append(steps, "hosted-create")
            /\ log' = log \o StepLog("hosted-create")
            /\ cmds' = Append(cmds,
                    Cmd(CreateRepositoryCmd(HostedGitignoreArg(config.gitignore_template)), o))
            /\ hosted' = (hosted \/ o = "ok")
            /\ Return(CreateRepository(o))
    /\ UNCHANGED <<config, should_stop, propagated, tokenAtCheck, cwd, fs,
                   fs0, remote, gui, cacheVars, runs, guiVars, branch, pushed>>

\* run(), lines 161-168
DoGitignore(o) ==
    /\ pc = "do" /\ step = "gitignore"
    /\ LET t == config.gitignore_template
       IN  IF t \in CustomGitignoreTemplates
           THEN LET r == CreateCustomGitignore(fs, t)
                IN  /\ progress' = Append(progress, "Creating custom .gitignore")
                    /\ steps' = Append(steps, "gitignore")
                    /\ log' = log \o StepLog("gitignore")
                    /\ cmds' = cmds
                    /\ fs' = r.fs
                    /\ IF r.raised THEN Raise("OSError") ELSE GoOn
           ELSE IF t # ""
           THEN LET r == FetchGitignoreTemplate(fs, t, o)
                IN  /\ progress' = Append(progress, "Fetching .gitignore template")
                    /\ steps' = Append(steps, "gitignore")
                    /\ log' = log \o StepLog("gitignore")
                    /\ cmds' = Append(cmds, Cmd("gh api gitignore/templates", o))
                    /\ fs' = r.fs
                    /\ IF r.exc # "none" THEN Raise(r.exc) ELSE GoOn
           ELSE /\ GoOn
                /\ UNCHANGED <<progress, steps, cmds, fs, log>>
    /\ UNCHANGED <<config, should_stop, propagated, rets, tokenAtCheck, cwd,
                   fs0, remote, hosted, gui, cacheVars, runs, guiVars, branch,
                   pushed>>

\* run(), lines 174-178
DoLocalInit(o, b) ==
    /\ pc = "do" /\ step = "local-init"
    /\ IF NeedsInit(fs)
       THEN /\ progress' = Append(progress, "Initializing git repository...")
            /\ steps' = Append(steps, "local-init")
            /\ log' = log \o StepLog("local-init")
            /\ cmds' = Append(cmds, Cmd("git init", o))
            /\ fs' = IF o = "ok" THEN [fs EXCEPT ![".git"] = Dir] ELSE fs
            /\ branch' = IF o = "ok" /\ branch = NoBranch THEN b ELSE branch
            /\ Return(InitRepository(o))
       ELSE /\ GoOn
            /\ UNCHANGED <<progress, steps, cmds, fs, rets, log, branch>>
    /\ UNCHANGED <<config, should_stop, propagated, tokenAtCheck, cwd, fs0,
                   remote, hosted, gui, cacheVars, runs, guiVars, pushed>>

\* run(), lines 184-187
DoCommit(oAdd, oCommit) ==
    /\ pc = "do" /\ step = "commit"
    /\ progress' = Append(progress, "Adding and committing files...")
    /\ steps' = Append(steps, "commit")
    /\ log' = log \o StepLog("commit")
    /\ LET r == AddAndCommit(oAdd, oCommit)
       IN  /\ cmds' = cmds \o r.cmds
           /\ Return(r.ret)
    /\ UNCHANGED <<config, should_stop, propagated, tokenAtCheck, cwd, fs,
                   fs0, remote, hosted, gui, cacheVars, runs, guiVars, branch,
                   pushed>>

\* run(), lines 193-200
DoRemoteWire(oAdd, oSet) ==
    /\ pc = "do" /\ step = "remote-wire"
    /\ progress' = Append(progress, "Adding remote origin...")
    /\ IF ~HasKey(config, "username")
       THEN /\ Raise("KeyError")
            /\ log' = Append(log, Announce("remote-wire"))
            /\ UNCHANGED <<steps, cmds, remote, rets>>
       ELSE LET r == AddRemote(config.username, config.repo_name,
                               config.remote_type, remote, oAdd, oSet)
            IN  /\ steps' = Append(steps, "remote-wire")
                /\ log' = log \o StepLog("remote-wire")
                /\ cmds' = cmds \o r.cmds
                /\ remote' = r.remote
                /\ Return(r.ret)
    /\ UNCHANGED <<config, should_stop, propagated, tokenAtCheck, cwd, fs,
                   fs0, hosted, gui, cacheVars, runs, guiVars, branch, pushed>>

\* run(), lines 206-209
DoPush(o) ==
    /\ pc = "do" /\ step = "push"
    /\ progress' = Append(progress, "Pushing to GitHub...")
    /\ steps' = Append(steps, "push")
    /\ log' = log \o StepLog("push")
    /\ cmds' = Append(cmds, Cmd("git push", o))
    /\ pushed' = PushBranch(branch)
    /\ Return(PushToRemote(o))
    /\ UNCHANGED <<config, should_stop, propagated, tokenAtCheck, cwd, fs,
                   fs0, remote, hosted, gui, cacheVars, runs, guiVars, branch>>

\* run(), lines 215-224
DoTopics(o) ==
    /\ pc = "do" /\ step = "topics"
    /\ IF config.topics # <<>>
       THEN LET r == SetTopics(config.topics, o)
            IN  /\ steps' = Append(steps, "topics")
                /\ log' = log \o StepLog("topics") \o
                          (IF r = "False" THEN <<Announce("topics-warning")>>
                           ELSE <<>>)
                /\ cmds' = Append(cmds, Cmd("gh api repos PATCH topics", o))
                /\ rets' = [rets EXCEPT !["topics"] = r]
                /\ progress' = IF r = "False"
                               THEN progress \o <<"Setting repository topics...",
                                                  "Warning: Failed to set topics">>
                               ELSE Append(progress, "Setting repository topics...")
                /\ IF IsRaise(r) THEN Raise(r) ELSE Succeed
       ELSE /\ Succeed
            /\ UNCHANGED <<progress, steps, cmds, rets, log>>
    /\ UNCHANGED <<config, should_stop, propagated, tokenAtCheck, cwd, fs,
                   fs0, remote, hosted, gui, cacheVars, runs, guiVars, branch,
                   pushed>>

\* a finally block that undoes what the run created
RestoreRollsBack(o) ==
    /\ pc = "finally"
    /\ cwd' = "original"
    /\ pc' = "done"
    /\ hosted' = FALSE
    /\ fs' = fs0
    /\ remote' = NoRemote
    /\ UNCHANGED <<config, should_stop, step, exc, propagated, finished,
                   progress, steps, cmds, rets, raised, tokenAtCheck, fs0,
                   gui, cacheVars, runs, guiVars, log, branch, pushed>>

\* run(), lines 228-233: the finally block, then the outer handler if the
\* chdir raised or an exception is in flight
Restore(o) ==
    /\ pc = "finally"
    /\ IF o = "ok"
       THEN /\ cwd' = "original"
            /\ raised' = raised
            /\ IF exc # "none"
               THEN OuterHandle(exc)
               ELSE pc' = "done" /\ UNCHANGED <<exc, finished, propagated>>
       ELSE /\ cwd' = cwd
            /\ raised' = Append(raised, o)
            /\ OuterHandle(o)
    /\ UNCHANGED <<config, should_stop, step, progress, steps, cmds, rets,
                   tokenAtCheck, fs, fs0, remote, hosted, gui, cacheVars, runs, guiVars,
                   log, branch, pushed>>

\* the steps of the worker thread once it has been started
WorkerSteps ==
    \/ EntryCheck
    \/ \E o \in {"ok", "OSError"} : Setup(o)
    \/ Check
    \/ DoScaffold
    \/ \E o \in ProcOutcomes : DoHostedCreate(o)
    \/ \E o \in FetchOutcomes : DoGitignore(o)
    \/ \E o \in ProcOutcomes, b \in InitBranches : DoLocalInit(o, b)
    \/ \E oAdd, oCommit \in ProcOutcomes : DoCommit(oAdd, oCommit)
    \/ \E oAdd, oSet \in ProcOutcomes : DoRemoteWire(oAdd, oSet)
    \/ \E o \in ProcOutcomes : DoPush(o)
    \/ \E o \in ProcOutcomes : DoTopics(o)
    \/ \E o \in {"ok", "OSError"} : Restore(o)

WorkerNext == Start \/ WorkerSteps

\* A run of the worker whose owner may call cancel() at any moment.
Next == cancel \/ WorkerNext

Spec == Init /\ [][Next]_vars

(***************************************************************************)
(* RepoSparkGUI: create_repository, on_creation_finished, cancel_operation *)
(* and closeEvent, with the worker thread running beside the GUI thread.   *)
(* The model follows the first worker the window creates; the start of a   *)
(* second one ends the behaviour, in "overlap" when the first was still    *)
(* running and in "restarted" otherwise.                                    *)
(***************************************************************************)
Sinks == {"overlap", "restarted"}

\* QThread.isRunning()
IsRunning == pc \notin {"idle", "done", "terminated"}

UiStates ==
    {UiValid,
     [UiValid EXCEPT !.repo_name = "", !.topics = <<"a", "b">>,
                     !.remote_type = "ssh", !.create_scaffold = FALSE]}

\* what validate_inputs finds on the machine: gh, git, gh's login
Envs ==
    {[gh |-> TRUE, git |-> TRUE, auth |-> TRUE],
     [gh |-> FALSE, git |-> TRUE, auth |-> TRUE],
     [gh |-> TRUE, git |-> FALSE, auth |-> TRUE],
     [gh |-> TRUE, git |-> TRUE, auth |-> FALSE]}

\* RepoSparkGUI.validate_inputs: the error message, "" when the inputs are
\* accepted (the checks of characters and lengths pass for every value of
\* UiStates)
ValidateInputs(u, e) ==
    IF u.repo_location = "" THEN "Repository location is required"
    ELSE IF u.folder_name = "" THEN "Folder name is required"
    ELSE IF u.repo_name = "" THEN "Repository name is required"
    ELSE IF u.repo_name \in {".", ".."} THEN "Repository name cannot be '.' or '..'"
    ELSE IF Len(u.topics) > 20 THEN "Maximum 20 topics allowed"
    ELSE IF ~e.gh THEN "GitHub CLI (gh) is not installed or not available"
    ELSE IF ~e.git THEN "Git is not installed or not available"
    ELSE IF ~e.auth THEN "GitHub CLI is not authenticated. Run 'gh auth login' first"
    ELSE ""

\* RepoSparkGUI.get_config: a new dict built from the widgets; info is what
\* get_user_info returned
GetConfig(u, info) ==
    [repo_name |-> u.repo_name, folder_name |-> u.folder_name,
     username |-> IF info = "ok" THEN UserName ELSE "",
     visibility |-> u.visibility, gitignore_template |-> u.gitignore_template,
     topics |-> u.topics, remote_type |-> u.remote_type,
     create_scaffold |-> u.create_scaffold,
     create_editorconfig |-> u.create_editorconfig,
     readme_content |-> u.readme_content, repo_location |-> u.repo_location,
     missing |-> "none"]

\* a worker whose config is a live view of the widgets
ConfigFollowsEdit(c, u) == GetConfig(u, IF c.username = "" THEN "none" ELSE "ok")

\* the dict get_config returned, which RepositoryWorker.__init__ stores,
\* after the widgets changed to u: the dict holds values, not widgets
ConfigAfterEdit(c, u) == c

\* a create_repository that does not ask for confirmation
MayStartUnconfirmed(valid, confirmed) == valid

\* create_repository, lines 2821-2834: the two early returns
MayStart(valid, confirmed) == valid /\ confirmed

\* a cancel_operation that terminates without waiting
MayTerminateAtOnce(timed_out) == TRUE

\* cancel_operation, line 2949 and closeEvent, line 3024:
\* 'if not self.worker.wait(...)' guards terminate()
MayTerminate(timed_out) == timed_out


\* the window with a worker just started (create_repository, lines
\* 2842-2843) or with the run ended (cancel_operation, lines 2955-2956, and
\* the setEnabled calls queued by on_creation_finished)
ButtonsRunning(w) == [w EXCEPT !.create_button = FALSE, !.cancel_button = TRUE]
ButtonsIdle(w) == [w EXCEPT !.create_button = TRUE, !.cancel_button = FALSE]

\* RepoSparkGUI.create_repository, a click on Create: e is what validation
\* finds, info what get_user_info returns to get_config, confirmed the answer
\* to the confirmation dialog
GuiCreateRepository(e, info, confirmed) ==
    /\ gui = "idle"
    /\ pc \notin Sinks
    /\ win.create_button
    /\ LET valid == ValidateInputs(ui, e) = ""
           asked == valid /\ confirmed
           cfg == GetConfig(ui, info)
           attempt(w, newpc) ==
               [called |-> TRUE, valid |-> valid, confirmed |-> asked,
                started |-> (newpc # pc \/ w.worker # win.worker),
                kept |-> /\ w.create_button = win.create_button
                         /\ w.cancel_button = win.cancel_button]
       IN  IF MayStart(valid, confirmed)
           THEN LET w == ButtonsRunning([win EXCEPT !.worker = TRUE,
                                                    !.captured = cfg])
                IN  /\ IF win.worker
                       THEN /\ pc' = IF IsRunning THEN "overlap" ELSE "restarted"
                            /\ UNCHANGED config
                       ELSE /\ pc' = "entry"
                            /\ config' = cfg
                    /\ win' = [w EXCEPT !.last = attempt(w, pc')]
           ELSE /\ win' = [win EXCEPT !.last = attempt(win, pc)]
                /\ UNCHANGED <<pc, config>>
    /\ UNCHANGED <<should_stop, step, exc, propagated, finished, progress,
                   steps, cmds, rets, raised, tokenAtCheck, cwd, fs, fs0,
                   remote, hosted, gui, cacheVars, runs, log, branch, pushed,
                   ui>>

\* the user changes the inputs
EditUi(u) ==
    /\ gui = "idle"
    /\ pc \notin Sinks
    /\ u # ui
    /\ ui' = u
    /\ config' = ConfigAfterEdit(config, u)
    /\ UNCHANGED <<should_stop, pc, step, exc, propagated, finished,
                   progress, steps, cmds, rets, raised, tokenAtCheck, cwd, fs,
                   fs0, remote, hosted, gui, cacheVars, runs, log, branch,
                   pushed, win>>

\* RepoSparkGUI.on_creation_finished, the slot of the worker's finished
\* signal run by the event loop: it queues the button updates
OnCreationFinished ==
    /\ gui = "idle"
    /\ pc \notin Sinks
    /\ win.delivered < Len(finished)
    /\ win' = [win EXCEPT !.delivered = @ + 1, !.queued = @ + 1]
    /\ UNCHANGED <<workerVars, fs, gui, cacheVars, runs, ui>>

\* the event loop runs the setEnabled calls queued by on_creation_finished
ApplyQueuedUi ==
    /\ gui = "idle"
    /\ pc \notin Sinks
    /\ win.queued > 0
    /\ win' = [ButtonsIdle(win) EXCEPT !.queued = @ - 1]
    /\ UNCHANGED <<workerVars, fs, gui, cacheVars, runs, ui>>

\* RepoSparkGUI.cancel_operation, a click on Cancel: with a running worker
\* set the flag and block in wait(3000), otherwise only reset the buttons
CancelOperation ==
    /\ gui = "idle"
    /\ pc \notin Sinks
    /\ win.cancel_button
    /\ IF win.worker /\ IsRunning
       THEN /\ should_stop' = TRUE
            /\ gui' = "cancel_wait"
            /\ win' = [win EXCEPT !.timed_out = FALSE]
       ELSE /\ win' = [ButtonsIdle(win) EXCEPT !.cancel_returned = TRUE]
            /\ UNCHANGED <<should_stop, gui>>
    /\ UNCHANGED <<config, pc, step, exc, propagated, finished, progress,
                   steps, cmds, rets, raised, tokenAtCheck, cwd, fs, fs0,
                   remote, hosted, cacheVars, runs, log, branch, pushed, ui>>

\* RepoSparkGUI.closeEvent: with a running worker set the flag and block in
\* wait(2000), otherwise accept the event
CloseEvent ==
    /\ gui = "idle"
    /\ pc \notin Sinks
    /\ IF win.worker /\ IsRunning
       THEN /\ should_stop' = TRUE
            /\ gui' = "close_wait"
            /\ win' = [win EXCEPT !.timed_out = FALSE]
       ELSE /\ gui' = "closed"
            /\ UNCHANGED <<should_stop, win>>
    /\ UNCHANGED <<config, pc, step, exc, propagated, finished, progress,
                   steps, cmds, rets, raised, tokenAtCheck, cwd, fs, fs0,
                   remote, hosted, cacheVars, runs, log, branch, pushed, ui>>

\* the rest of the handler once the worker has stopped: cancel_operation,
\* lines 2954-2957, or closeEvent, line 3028
AfterWait ==
    IF gui = "cancel_wait"
    THEN /\ gui' = "idle"
         /\ win' = [ButtonsIdle(win) EXCEPT !.cancel_returned = TRUE]
    ELSE /\ gui' = "closed"
         /\ win' = win

\* wait(...) returned True: the worker left run() within the grace period
WaitReturns ==
    /\ gui \in {"cancel_wait", "close_wait"}
    /\ ~win.timed_out
    /\ ~IsRunning
    /\ AfterWait
    /\ UNCHANGED <<workerVars, fs, cacheVars, runs, ui>>

\* wait(...) returned False: the grace period ended with the worker running
WaitTimesOut ==
    /\ gui \in {"cancel_wait", "close_wait"}
    /\ ~win.timed_out
    /\ IsRunning
    /\ win' = [win EXCEPT !.timed_out = TRUE]
    /\ UNCHANGED <<workerVars, fs, gui, cacheVars, runs, ui>>

\* terminate() and wait(): the thread is stopped where it is
Terminate ==
    /\ gui \in {"cancel_wait", "close_wait"}
    /\ MayTerminate(win.timed_out)
    /\ pc' = IF IsRunning THEN "terminated" ELSE pc
    /\ AfterWait
    /\ UNCHANGED <<config, should_stop, step, exc, propagated, finished,
                   progress, steps, cmds, rets, raised, tokenAtCheck, cwd, fs,
                   fs0, remote, hosted, cacheVars, runs, log, branch, pushed,
                   ui>>

\* target directories of the window: an empty one and an existing repository
GuiStartDirs ==
    {f \in StartDirs : f = EmptyDir \/ (Exists(f, ".git") /\ Exists(f, "README.md"))}

\* the window before the first click, no worker constructed yet
InitGui ==
    /\ config = FixedConfig
    /\ InitIdleWorker
    /\ fs \in GuiStartDirs
    /\ fs0 = fs
    /\ remote \in StartRemotes(fs)
    /\ branch = IF Exists(fs, ".git") THEN "main" ELSE NoBranch
    /\ InitRest
    /\ win = IdleWindow
    /\ ui \in UiStates

\* The window and the worker it starts.
NextGui ==
    \/ \E e \in Envs, info \in {"ok", "none"}, confirmed \in BOOLEAN :
           GuiCreateRepository(e, info, confirmed)
    \/ \E u \in UiStates : EditUi(u)
    \/ OnCreationFinished
    \/ ApplyQueuedUi
    \/ CancelOperation
    \/ CloseEvent
    \/ WaitReturns
    \/ WaitTimesOut
    \/ Terminate
    \/ WorkerSteps

SpecGui == InitGui /\ [][NextGui]_vars

(***************************************************************************)
(* GitHubAPI.get_gitignore_templates and its class-level cache             *)
(***************************************************************************)
None == [some |-> FALSE, list |-> <<>>]
Some(l) == [some |-> TRUE, list |-> l]

TemplateLists == {<<>>, <<"Python">>, <<"Python", "Node">>}

TemplateFetchOutcomes == {"ok", "CalledProcessError", "JSONDecodeError",
                          "TimeoutExpired", "FileNotFoundError"}

\* a get_gitignore_templates that fetches on every call and falls back to
\* the cache only when the fetch fails
GetGitignoreTemplatesRefetch(c, o, data) ==
    CASE o = "ok" ->
           [cache |-> [some |-> TRUE, list |-> data], ret |-> data, exc |-> "none"]
      [] o \in {"CalledProcessError", "JSONDecodeError", "TimeoutExpired"} ->
           IF c.some
           THEN [cache |-> c, ret |-> c.list, exc |-> "none"]
           ELSE [cache |-> c, ret |-> <<>>, exc |-> "none"]
      [] OTHER -> [cache |-> c, ret |-> <<>>, exc |-> o]

\* get_gitignore_templates with cache c, when the 'gh api gitignore/templates'
\* call would end as o and, on success, print the list data: the cache
\* afterwards and the list returned (exc: the exception let through)
GetGitignoreTemplates(c, o, data) ==
    IF c.some
    THEN [cache |-> c, ret |-> c.list, exc |-> "none"]
    ELSE CASE o = "ok" ->
                [cache |-> Some(data), ret |-> data, exc |-> "none"]
           [] o \in {"CalledProcessError", "JSONDecodeError", "TimeoutExpired"} ->
                IF c.some
                THEN [cache |-> c, ret |-> c.list, exc |-> "none"]
                ELSE [cache |-> c, ret |-> <<>>, exc |-> "none"]
           [] OTHER -> [cache |-> c, ret |-> <<>>, exc |-> o]

\* one call of get_gitignore_templates by the process
CallGetGitignoreTemplates(o, data) ==
    /\ Len(returned) < MaxCalls
    /\ LET r == GetGitignoreTemplates(cache, o, data)
       IN  /\ cache' = r.cache
           /\ returned' = Append(returned, [list |-> r.ret, exc |-> r.exc,
                                            fetchedBefore |-> fetched.some,
                                            o |-> o, data |-> data])
           /\ fetched' = IF ~fetched.some /\ ~cache.some /\ o = "ok" /\ r.exc = "none"
                         THEN Some(data) ELSE fetched
    /\ UNCHANGED <<workerVars, fs, gui, runs, guiVars, calls>>

InitCache ==
    /\ config = FixedConfig
    /\ InitIdleWorker
    /\ fs = EmptyDir
    /\ fs0 = fs
    /\ remote = NoRemote
    /\ branch = NoBranch
    /\ InitRest
    /\ InitWindow

NextCache ==
    \E o \in TemplateFetchOutcomes, data \in TemplateLists :
        CallGetGitignoreTemplates(o, data)

SpecCache == InitCache /\ [][NextCache]_vars

(***************************************************************************)
(* GitHubAPI.get_user_info and GitHubAPI.set_topics called on their own    *)
(***************************************************************************)
\* what 'gh api user' does: exit 0 with the JSON of the user, a non-zero
\* exit (not logged in, no network), output that is not JSON, no gh in PATH
UserInfoOutcomes == {"ok", "CalledProcessError", "JSONDecodeError",
                    "FileNotFoundError"}

NoIdentity == [some |-> FALSE, login |-> ""]
Identity(login) == [some |-> TRUE, login |-> login]

\* GitHubAPI.get_user_info: the value returned and the exception it lets
\* through ("none" when it returns)
GetUserInfo(o) ==
    CASE o = "ok" -> [ret |-> Identity(UserName), exc |-> "none"]
      [] o \in {"CalledProcessError", "JSONDecodeError"} ->
           [ret |-> NoIdentity, exc |-> "none"]
      [] OTHER -> [ret |-> NoIdentity, exc |-> o]

CallGetUserInfo(o) ==
    /\ Len(calls) < MaxApiCalls
    /\ LET r == GetUserInfo(o)
       IN  calls' = Append(calls, [fn |-> "get_user_info", topics |-> <<>>,
                                   o |-> o, invoked |-> TRUE,
                                   ret |-> IF r.exc # "none" THEN r.exc
                                           ELSE IF r.ret.some THEN r.ret.login
                                           ELSE "None"])
    /\ UNCHANGED <<workerVars, fs, gui, runs, guiVars, cache, returned, fetched>>

\* set_topics, line 146: 'if not topics: return True' comes before the call
\* of gh
CallSetTopics(topics, o) ==
    /\ Len(calls) < MaxApiCalls
    /\ calls' = Append(calls, [fn |-> "set_topics", topics |-> topics, o |-> o,
                               invoked |-> topics # <<>>,
                               ret |-> SetTopics(topics, o)])
    /\ UNCHANGED <<workerVars, fs, gui, runs, guiVars, cache, returned, fetched>>

NextApi ==
    \/ \E o \in UserInfoOutcomes : CallGetUserInfo(o)
    \/ \E topics \in {<<>>, <<"a", "b">>}, o \in ProcOutcomes :
           CallSetTopics(topics, o)

SpecApi == InitCache /\ [][NextApi]_vars

(***************************************************************************)
(* ScaffoldGenerator.create_scaffold called on a directory                 *)
(***************************************************************************)
ScaffoldConfigs ==
    {[FixedConfig EXCEPT !.create_editorconfig = e, !.readme_content = r] :
        e \in BOOLEAN, r \in {"", "# custom readme\n"}}

\* directories create_scaffold can be called in: each of these paths absent,
\* a directory, or a file of the user
ScaffoldStartDirs ==
    {[EmptyDir EXCEPT !["src"] = a, ![".github"] = b, !["README.md"] = c,
                      ![".editorconfig"] = d] :
        a \in {Absent, Dir, "user text"}, b \in {Absent, Dir, "user text"},
        c \in {Absent, Dir, "user text"}, d \in {Absent, Dir, "user text"}}

InitScaffold ==
    /\ config \in ScaffoldConfigs
    /\ InitIdleWorker
    /\ fs \in ScaffoldStartDirs
    /\ fs0 = fs
    /\ remote = NoRemote
    /\ branch = NoBranch
    /\ InitRest
    /\ InitWindow

\* one call of create_scaffold with the arguments of config
CallCreateScaffold ==
    /\ Len(runs) < MaxScaffoldRuns
    /\ LET r == CreateScaffold(fs, config.repo_name, config.create_editorconfig,
                               config.readme_content)
       IN  /\ fs' = r.fs
           /\ runs' = Append(runs, r)
    /\ UNCHANGED <<workerVars, gui, cacheVars, guiVars>>

NextScaffold == CallCreateScaffold

SpecScaffold == InitScaffold /\ [][NextScaffold]_vars

(***************************************************************************)
(* Properties                                                              *)
(***************************************************************************)
Range(q) == {q[i] : i \in 1..Len(q)}

GitCmds == {"git init", "git add", "git commit", "git remote add",
            "git remote set-url", "git push"}

RequiredSteps == {"hosted-create", "local-init", "commit", "remote-wire", "push"}

\* C1: once create_repository has returned False, no git command has been or
\* is ever run, a result has been emitted and every result emitted is a
\* failure.
C1_NoVcsAfterHostedCreateFailure ==
    rets["hosted-create"] = "False" =>
        /\ \A i \in 1..Len(cmds) : cmds[i].cmd \notin GitCmds
        /\ finished # <<>>
        /\ \A i \in 1..Len(finished) : ~finished[i].success

C1_Witness ==
    /\ rets["hosted-create"] = "False"
    /\ pc = "done"
    /\ finished = <<Result(FALSE, FailMsg("hosted-create"))>>

\* C2: a run never emits a second finished signal, and a run that has ended
\* (returned from run() or stopped by cancel_operation) has emitted one.
C2_ExactlyOneTerminalResult ==
    /\ Len(finished) <= 1
    /\ pc \in {"done", "terminated"} => Len(finished) = 1

\* C3: when set_topics was called and did not succeed, the result of the run
\* is the success result.
C3_TopicsFailureKeepsSuccess ==
    rets["topics"] \notin {"none", "True"} =>
        /\ finished # <<>>
        /\ finished[1] = Result(TRUE, SuccessMsg(config.repo_name))

\* C4: when the adapter of a required step has returned False, the result the
\* run emits is (False, the message of that step) and that step is the last
\* one attempted.
C4_RequiredStepFailureIsFatal ==
    \A k \in RequiredSteps :
        rets[k] = "False" =>
            /\ finished # <<>>
            /\ finished[1] = Result(FALSE, FailMsg(k))
            /\ steps[Len(steps)] = k
            /\ pc \in {"finally", "done"}

C4_Witness ==
    /\ rets["push"] = "False"
    /\ config.topics # <<>>
    /\ pc = "done"
    /\ finished = <<Result(FALSE, "Failed to push to GitHub")>>
    /\ "topics" \notin Range(steps)

\* C5: when the check in front of step k read the token as set, neither k nor
\* any later step is ever attempted and the result the run emits is
\* (False, "Operation cancelled").
C5_CancelBeforeBoundaryStopsRun ==
    \A k \in StepNames \cup {"entry"} :
        tokenAtCheck[k] = "set" =>
            /\ IF k = "entry" THEN steps = <<>>
               ELSE \A i \in 1..Len(steps) : Rank(steps[i]) < Rank(k)
            /\ finished # <<>>
            /\ finished[1] = Result(FALSE, CancelledMsg)
            /\ pc \in {"finally", "done"}

C5_Witness ==
    /\ tokenAtCheck["scaffold"] = "clear"
    /\ steps = <<"scaffold">>
    /\ tokenAtCheck["hosted-create"] = "set"
    /\ pc = "done"
    /\ finished = <<Result(FALSE, CancelledMsg)>>

IsOrdered(q) == \A i, j \in 1..Len(q) : i < j => Rank(q[i]) < Rank(q[j])

ScenarioA ==
    /\ config.create_scaffold
    /\ config.gitignore_template = ""
    /\ ~Exists(fs0, ".git")
    /\ config.topics # <<>>

FullOrder == <<"scaffold", "hosted-create", "local-init", "commit",
               "remote-wire", "push", "topics">>

\* C6: the steps attempted are always in pipeline order, each at most once;
\* in scenario A, a finished run in which no call failed, nothing raised and
\* no check saw the token set attempted all seven steps in order and emitted
\* exactly the success result.
C6_StepsInPipelineOrder ==
    /\ IsOrdered(steps)
    /\ ( /\ ScenarioA
         /\ pc = "done"
         /\ \A i \in 1..Len(cmds) : cmds[i].out = "ok"
         /\ raised = <<>>
         /\ \A k \in StepNames \cup {"entry"} : tokenAtCheck[k] # "set" )
       => /\ steps = FullOrder
          /\ finished = <<Result(TRUE, SuccessMsg(config.repo_name))>>

C6_Witness ==
    /\ ScenarioA
    /\ pc = "done"
    /\ steps = FullOrder
    /\ \A i \in 1..Len(cmds) : cmds[i].out = "ok"
    /\ finished = <<Result(TRUE, SuccessMsg(config.repo_name))>>

\* C7: a 'git remote add' that failed because origin exists is followed by
\* 'git remote set-url'; when that succeeded, add_remote returned True, origin
\* has the derived URL, and the run went on to the push step without the
\* remote failure result.
C7_RemoteExistsFallsBack ==
    \A i \in 1..Len(cmds) :
        cmds[i] = Cmd("git remote add", "exists") =>
            /\ i < Len(cmds)
            /\ cmds[i + 1].cmd = "git remote set-url"
            /\ cmds[i + 1].out = "ok" =>
                  /\ rets["remote-wire"] = "True"
                  /\ remote = RemoteUrl(config.username, config.repo_name,
                                        config.remote_type)
                  /\ step \in {"push", "topics"}
                  /\ Result(FALSE, FailMsg("remote-wire")) \notin Range(finished)

C7_Witness ==
    /\ Len(cmds) >= 2
    /\ \E i \in 1..(Len(cmds) - 1) :
          /\ cmds[i] = Cmd("git remote add", "exists")
          /\ cmds[i + 1] = Cmd("git remote set-url", "ok")
    /\ fs0[".git"] = Dir
    /\ remote = RemoteUrl(config.username, config.repo_name, config.remote_type)
    /\ "push" \in Range(steps)

\* C8: every call made after a successful fetch returns the list that fetch
\* stored, whatever a fetch would do now, and the cache keeps that list.
C8_CacheServedAfterFirstFetch ==
    /\ \A i \in 1..Len(returned) :
          returned[i].fetchedBefore =>
              /\ returned[i].exc = "none"
              /\ returned[i].list = fetched.list
    /\ fetched.some => cache = fetched

C8_Witness ==
    /\ Len(returned) >= 3
    /\ returned[1].o = "ok" /\ returned[1].list = <<"Python", "Node">>
    /\ returned[2].o = "TimeoutExpired" /\ returned[2].list = <<"Python", "Node">>
    /\ returned[3].o = "ok" /\ returned[3].data = <<"Python">>
    /\ returned[3].list = <<"Python", "Node">>

\* C9: every further create_scaffold call with the same arguments leaves the
\* directory exactly as the first call left it, and does not raise when the
\* first did not.
C9_ScaffoldIdempotent ==
    \A i \in 2..Len(runs) :
        /\ runs[i].fs = runs[1].fs
        /\ ~runs[1].raised => ~runs[i].raised

C9_Witness ==
    /\ Len(runs) >= 2
    /\ ~runs[1].raised
    /\ ~runs[2].raised
    /\ fs0["src"] = Dir
    /\ fs0["README.md"] = "user text"
    /\ runs[1].fs # fs0
    /\ fs = runs[1].fs

\* C10: no exception leaves run(), none stays in flight, and for every
\* exception raised inside run() the result (False, "Error: <exception>") has
\* been emitted.
C10_ExceptionsBecomeFailureResults ==
    /\ ~propagated
    /\ exc = "none"
    /\ \A i \in 1..Len(raised) :
          Result(FALSE, ErrorMsg(raised[i])) \in Range(finished)

C10_Witness ==
    /\ pc = "done"
    /\ Len(raised) = 2
    /\ raised[1] = "KeyError"
    /\ raised[2] = "OSError"
    /\ finished = <<Result(FALSE, ErrorMsg("KeyError")), Result(FALSE, ErrorMsg("OSError"))>>

(***************************************************************************)
(* Claims about the window                                                 *)
(***************************************************************************)
\* C11: from the moment create_repository starts a worker until that worker
\* thread has stopped running, Create is disabled and Cancel is enabled, so a
\* second worker is never started while the first is running.
C11_StartDisabledWhileWorkerRuns ==
    /\ (win.worker /\ IsRunning) => (~win.create_button /\ win.cancel_button)
    /\ pc # "overlap"

\* C12: cancel_operation and closeEvent set the cancellation token before
\* they wait, the worker is force-terminated only after the wait for a
\* graceful stop has timed out, and once cancel_operation has returned (or
\* the window has closed) the worker is no longer running.
C12_GracefulThenForcedCancel ==
    /\ gui \in {"cancel_wait", "close_wait"} => should_stop
    /\ pc = "terminated" => (should_stop /\ win.timed_out)
    /\ (win.cancel_returned /\ pc \notin Sinks) => ~IsRunning
    /\ gui = "closed" => ~IsRunning

\* cancel_operation returned after terminating a worker that was in the
\* middle of the push
C12_Witness ==
    /\ pc = "terminated" /\ step = "push" /\ tokenAtCheck["push"] = "clear"
    /\ win.cancel_returned /\ win.timed_out /\ gui = "idle"

\* C13: the configuration the worker reads is the one get_config captured
\* when the run was started, whatever the widgets hold afterwards.
C13_WorkerConfigIsStartSnapshot ==
    (win.worker /\ pc \notin Sinks) => config = win.captured

\* the widgets were edited while the run is in flight, and steps have run
C13_Witness ==
    /\ win.worker /\ IsRunning /\ pc \notin Sinks
    /\ ui.repo_name # config.repo_name
    /\ "push" \in Range(steps)
    /\ config = GetConfig(UiValid, "ok")

(***************************************************************************)
(* Claims about the steps of run(), continued                              *)
(***************************************************************************)
\* the call of each step directly follows the progress emission of that step
CallsAnnounced ==
    \A i \in 1..Len(log) :
        log[i].kind = "call" => (i > 1 /\ log[i - 1] = Announce(log[i].what))

\* no step of the thread emits progress once a terminal result has been
\* emitted (the warning of the topics step is emitted before the result)
NoProgressAfterResult ==
    finished # <<>> => (progress' = progress /\ log' = log)

\* C14: every executed step is preceded by a progress event for that step,
\* emitted before the step's external call or file write begins, and no
\* progress event is emitted after the terminal result of the run.
C14_ProgressBeforeStepNoneAfterResult ==
    []CallsAnnounced /\ [][NoProgressAfterResult]_vars

\* a successful run in which all eight steps were announced and called, the
\* failed topics call followed by its warning
C14_Witness ==
    /\ Len(steps) = 8
    /\ log[Len(log)] = Announce("topics-warning")
    /\ Len(log) = 17
    /\ Len(finished) = 1 /\ finished[1].success

\* C15: the push names the branch that is current in the local repository,
\* 'main' only when the current branch cannot be determined; a repository
\* that already existed on another branch has that branch pushed.
C15_PushesCurrentBranch ==
    pushed # NotPushed => pushed = GetCurrentBranch(branch)

\* the command lines create_repository can build for the templates of Configs
HostedCreateCmds ==
    {CreateRepositoryCmd(c.gitignore_template) : c \in Configs}

\* C16: the hosted repository is created with the chosen gitignore template
\* exactly when that template is non-empty and not one of the worker's custom
\* templates; otherwise it is created without a gitignore template.
C16_TemplatePassedIffNative ==
    \A i \in 1..Len(cmds) :
        cmds[i].cmd \in HostedCreateCmds =>
            LET t == config.gitignore_template
            IN  IF t # "" /\ t \notin CustomGitignoreTemplates
                THEN cmds[i].cmd = "gh repo create --gitignore " \o t
                ELSE cmds[i].cmd = "gh repo create"

\* a repository created with the native template Python
C16_Witness ==
    /\ config.gitignore_template = "Python"
    /\ Cmd("gh repo create --gitignore Python", "ok") \in Range(cmds)
    /\ rets["hosted-create"] = "True"

\* C17: for a native template the fetched source is written to .gitignore
\* only if the fetch returned non-empty content and no .gitignore exists; an
\* existing .gitignore is left unchanged, and without a template no
\* .gitignore is written at all.
C17_NativeTemplateWriteIsGuarded ==
    LET t == config.gitignore_template
    IN  /\ (t # "" /\ t \notin CustomGitignoreTemplates) =>
               /\ Exists(fs0, ".gitignore") => fs[".gitignore"] = fs0[".gitignore"]
               /\ fs[".gitignore"] # fs0[".gitignore"] =>
                      /\ Cmd("gh api gitignore/templates", "ok") \in Range(cmds)
                      /\ fs[".gitignore"] = "source of " \o t
        /\ t = "" => fs[".gitignore"] = fs0[".gitignore"]

\* the fetch of a native template succeeded in a directory that holds a
\* .gitignore of the user, and the run went on
C17_Witness ==
    /\ config.gitignore_template = "Python"
    /\ Cmd("gh api gitignore/templates", "ok") \in Range(cmds)
    /\ fs0[".gitignore"] = "user ignore" /\ fs[".gitignore"] = "user ignore"
    /\ "commit" \in Range(steps)

\* C18: a failure of the native-template fetch (command error, gh not found,
\* unparsable or unexpectedly shaped response) is not fatal: the run goes on
\* to the local init and no failure result comes from it.
C18_FetchFailureIsNotFatal ==
    \A i \in 1..Len(cmds) :
        (cmds[i].cmd = "gh api gitignore/templates"
            /\ cmds[i].out \notin {"ok", "ok_empty"}) =>
            /\ step # "gitignore"
            /\ \A j \in 1..Len(finished) :
                   finished[j].message # ErrorMsg(cmds[i].out)

\* C19: git init is invoked exactly when no .git exists in the target
\* directory when the step is reached; when it is skipped the run goes on to
\* the commit as after a successful init, so git init never runs on an
\* initialised directory.
C19_InitOnlyWithoutRepository ==
    LET reached == /\ tokenAtCheck["local-init"] = "clear"
                   /\ ~(pc = "do" /\ step = "local-init")
    IN  /\ Cmd("git init", "ok") \in Range(cmds) => ~Exists(fs0, ".git")
        /\ "local-init" \in Range(steps) => ~Exists(fs0, ".git")
        /\ reached =>
               IF Exists(fs0, ".git")
               THEN /\ "local-init" \notin Range(steps)
                    /\ rets["local-init"] = "none"
                    /\ Rank(step) >= Rank("commit")
               ELSE "local-init" \in Range(steps)

\* a run on an existing repository that skipped the init, committed and
\* succeeded
C19_Witness ==
    /\ Exists(fs0, ".git")
    /\ tokenAtCheck["local-init"] = "clear"
    /\ "local-init" \notin Range(steps)
    /\ rets["commit"] = "True"
    /\ Len(finished) = 1 /\ finished[1].success

(***************************************************************************)
(* Claims about the window, continued                                      *)
(***************************************************************************)
\* C20: a run is started only after validate_inputs accepted the inputs and
\* the user confirmed; when validation fails or the confirmation is declined
\* no worker is created, no step is executed and Create and Cancel keep
\* their idle state.
C20_StartOnlyAfterValidationAndConfirmation ==
    /\ win.last.called =>
           /\ win.last.started <=> (win.last.valid /\ win.last.confirmed)
           /\ ~win.last.started => win.last.kept
    /\ ~win.worker =>
           /\ pc = "idle" /\ steps = <<>> /\ cmds = <<>> /\ log = <<>>
           /\ fs = fs0
           /\ win.create_button /\ ~win.cancel_button

\* the inputs were valid and the user declined the confirmation
C20_Witness ==
    /\ win.last.called /\ win.last.valid /\ ~win.last.confirmed
    /\ ~win.worker /\ pc = "idle"
    /\ win.create_button /\ ~win.cancel_button

(***************************************************************************)
(* Claims about what a run leaves behind                                   *)
(***************************************************************************)
\* what a run has created: the hosted repository, the files, the remote and
\* the branch of the local repository
Artifacts == <<hosted, fs, remote, branch>>

\* a step of the thread after a terminal result changes no artifact and runs
\* no command; the hosted repository, once created, is never removed; no
\* file or directory is ever removed
NoUndo ==
    /\ finished # <<>> => (Artifacts' = Artifacts /\ cmds' = cmds)
    /\ hosted => hosted'
    /\ \A p \in Paths : Exists(fs, p) => Exists(fs', p)

\* C21: the workflow is forward-only: on cancellation or a fatal failure
\* after the hosted repository was created the run undoes nothing, so the
\* hosted repository and every local artifact stay as they were when the run
\* stopped.
C21_ForwardOnlyNoRollback == [][NoUndo]_vars

\* a run on an empty directory that failed at the push and has ended: the
\* hosted repository, the scaffold, the local repository and the remote are
\* still there
C21_Witness ==
    /\ pc = "done" /\ fs0 = EmptyDir
    /\ finished = <<Result(FALSE, FailMsg("push"))>>
    /\ hosted /\ rets["hosted-create"] = "True"
    /\ fs[".git"] = Dir /\ Exists(fs, "README.md")
    /\ remote = RemoteUrl(config.username, config.repo_name, config.remote_type)

(***************************************************************************)
(* Claims about GitHubAPI.get_user_info and GitHubAPI.set_topics           *)
(***************************************************************************)
\* C22: get_user_info returns the parsed identity when the query succeeds and
\* turns every failure (authentication, network or command error, gh not
\* found, unparsable output) into None without raising.
C22_UserInfoFailuresBecomeNone ==
    \A i \in 1..Len(calls) :
        calls[i].fn = "get_user_info" =>
            calls[i].ret = IF calls[i].o = "ok" THEN UserName ELSE "None"

\* C23: set_topics never raises: every failure of the update is the return
\* value False, success is True, and an empty list returns True without
\* invoking gh.
C23_SetTopicsNeverRaises ==
    \A i \in 1..Len(calls) :
        calls[i].fn = "set_topics" =>
            IF calls[i].topics = <<>>
            THEN calls[i].ret = "True" /\ ~calls[i].invoked
            ELSE calls[i].ret = IF calls[i].o = "ok" THEN "True" ELSE "False"

(***************************************************************************)
(* Claims about ScaffoldGenerator.create_scaffold, continued               *)
(***************************************************************************)
ScaffoldDirs == {"src", "tests", "docs", ".github"}
ScaffoldFiles ==
    {"README.md", "CHANGELOG.md", "CONTRIBUTING.md", "CODE_OF_CONDUCT.md",
     "SECURITY.md", ".gitattributes", ".github/ISSUE_TEMPLATE.md",
     ".github/PULL_REQUEST_TEMPLATE.md"}

\* C24: after create_scaffold returns, the four directories and the fixed
\* files exist, .editorconfig is written exactly when create_editorconfig is
\* true, and README.md holds readme_content when that is non-empty and the
\* default text with repo_name otherwise.
C24_ScaffoldContents ==
    \A i \in 1..Len(runs) :
        ~runs[i].raised =>
            LET f == runs[i].fs
            IN  /\ \A d \in ScaffoldDirs : f[d] = Dir
                /\ \A p \in ScaffoldFiles : Exists(f, p) /\ f[p] # Dir
                /\ f[".editorconfig"] = IF config.create_editorconfig
                                        THEN "editorconfig_content"
                                        ELSE fs0[".editorconfig"]
                /\ f["README.md"] = IF config.readme_content # ""
                                    THEN config.readme_content
                                    ELSE DefaultReadme(config.repo_name)

\* create_scaffold returned with a custom README and without .editorconfig
\* in a directory that held a README of the user
C24_Witness ==
    /\ Len(runs) >= 1 /\ ~runs[1].raised
    /\ ~config.create_editorconfig /\ config.readme_content # ""
    /\ fs0[".editorconfig"] = Absent /\ fs0["README.md"] = "user text"
    /\ runs[1].fs["README.md"] = config.readme_content

(***************************************************************************)
(* Claims about the steps of run(), continued                              *)
(***************************************************************************)
\* how often a command was run
Count(c) == Cardinality({i \in 1..Len(cmds) : cmds[i].cmd = c})

OnceCmds ==
    {"git init", "git add", "git commit", "git push",
     "gh api repos PATCH topics", "git remote add", "git remote set-url"}

\* the run has ended in a failure without reaching the push
FatalBeforePush ==
    /\ finished # <<>> /\ ~finished[1].success
    /\ "push" \notin Range(steps)

\* C25: within one run no external operation is retried: each command runs
\* at most once, 'remote set-url' only directly after a 'remote add' that
\* failed because origin exists, and any other failure of the add, or a
\* failed set-url, is fatal.
C25_NoRetryButRemoteFallback ==
    /\ \A c \in OnceCmds : Count(c) <= 1
    /\ Cardinality({i \in 1..Len(cmds) : cmds[i].cmd \in HostedCreateCmds}) <= 1
    /\ \A i \in 1..Len(cmds) :
           /\ cmds[i].cmd = "git remote set-url" =>
                  (i > 1 /\ cmds[i - 1] = Cmd("git remote add", "exists"))
           /\ (cmds[i].cmd = "git remote add" /\ cmds[i].out \notin {"ok", "exists"})
                  => FatalBeforePush
           /\ (cmds[i].cmd = "git remote set-url" /\ cmds[i].out # "ok")
                  => FatalBeforePush

\* a run in which every command ran once, the add found origin and the
\* set-url failed
C25_Witness ==
    /\ Cmd("git remote add", "exists") \in Range(cmds)
    /\ Cmd("git remote set-url", "CalledProcessError") \in Range(cmds)
    /\ Count("git add") = 1 /\ Count("git commit") = 1
    /\ finished = <<Result(FALSE, FailMsg("remote-wire"))>>
    /\ pc = "done"

(***************************************************************************)
(* The directory of the local steps                                        *)
(***************************************************************************)
\* os.path.join of a directory and a non-empty relative name
PathJoin(a, b) == a \o "/" \o b

\* _show_confirm_dialog: the path shown under "Local git repository will be
\* set up in this folder"
ConfirmDialogDir(c) == PathJoin(c.repo_location, c.folder_name)

\* run(), lines 100-106: the directory the worker makes current
WorkerDir(c) == c.repo_location

\* the path of the process working directory while the worker of the window
\* has changed into its target
CwdPath == IF cwd = "repo_location" THEN WorkerDir(win.captured) ELSE "original"

\* steps that read or write the working directory
LocalSteps == {"scaffold", "gitignore", "local-init", "commit", "remote-wire", "push"}

\* C26: every local step of a run started from the window operates in
\* repo_location/folder_name, the directory the confirmation dialog announced.
C26_LocalStepsInAnnouncedDir ==
    (win.worker /\ pc = "do" /\ step \in LocalSteps)
        => CwdPath = ConfirmDialogDir(win.captured)

\* the regular files the target directory held when the run started
PreexistingFiles == {p \in DOMAIN fs0 : Exists(fs0, p) /\ fs0[p] # Dir}

\* C27: a run overwrites none of the files that existed before it: each has
\* the content it had when the run started.
C27_PreexistingFilesKept == \A p \in PreexistingFiles : fs[p] = fs0[p]

\* C28: once a run has delivered its terminal result, the process working
\* directory is again the one that was current when the run started.
C28_CwdRestoredAfterResult ==
    (finished # <<>> /\ pc \in {"done", "terminated"}) => cwd = "original"

\* the run emitted the success result
Succeeded ==
    \E i \in 1..Len(finished) : finished[i].success

\* nothing clears the token once it is set
TokenStaysSet == should_stop => should_stop'

\* a token that is set while the check in front of the topics step is still
\* to come is read as set by that check, or the run ends before it
TopicsCheckSeesToken ==
    (should_stop /\ tokenAtCheck["topics"] = "unchecked")
        => tokenAtCheck'["topics"] # "clear"

\* C29: the token is monotonic and every check up to the one in front of the
\* topics step reads it: a run whose token was set before that check is
\* performed never emits the success result, while once that check has read
\* the token as clear the result no longer depends on the token (success,
\* unless set_topics raises).
C29_TokenMonotonicCheckedUpToTopics ==
    /\ [](Succeeded =>
             /\ tokenAtCheck["topics"] = "clear"
             /\ \A k \in StepNames \cup {"entry"} : tokenAtCheck[k] # "set")
    /\ []((tokenAtCheck["topics"] = "clear" /\ pc \in {"finally", "done"}
             /\ rets["topics"] \in {"none", "True", "False"})
            => (finished # <<>> /\ finished[1] = Result(TRUE, SuccessMsg(config.repo_name))))
    /\ [][TokenStaysSet /\ TopicsCheckSeesToken]_vars

C29_Witness ==
    /\ should_stop
    /\ tokenAtCheck["topics"] = "clear"
    /\ "topics" \in Range(steps)
    /\ pc = "done"
    /\ finished = <<Result(TRUE, SuccessMsg(config.repo_name))>>

\* call i of get_gitignore_templates found the cache empty and its fetch failed
FailedFetch(i) == ~returned[i].fetchedBefore /\ returned[i].o # "ok"

\* C30: a failed fetch never fills the cache: a call that fails with the
\* cache empty returns the empty list and the cache stays empty as long as no
\* fetch succeeded; the empty list is returned only by such a call.
C30_FailedFetchLeavesCacheEmpty ==
    /\ \A i \in 1..Len(returned) :
          FailedFetch(i) => (returned[i].exc = "none" /\ returned[i].list = <<>>)
    /\ (\A i \in 1..Len(returned) : returned[i].o # "ok") => ~cache.some
    /\ \A i \in 1..Len(returned) :
          (returned[i].exc = "none" /\ returned[i].list = <<>>) => FailedFetch(i)

====
